---- MODULE Spec2Model ----
(***************************************************************************)
(* A model of postgraphile-plugin-connection-filter:                       *)
(*   - PgConnectionArgFilterPlugin (build hook: the operators digest;      *)
(*     init hook: filter types and the operator-type registry; the         *)
(*     GraphQLObjectType_fields_field_args hook: the `filter` argument)    *)
(*   - PgConnectionArgFilterColumnsPlugin (GraphQLInputObjectType_fields   *)
(*     hook: one field per filterable column, and the field's applyPlan).  *)
(***************************************************************************)
EXTENDS Naturals, Sequences, FiniteSets, TLC

VARIABLES
    options,                 \* build.options
    allPgCodecs,             \* build.allPgCodecs, in enumeration order
    phase,                   \* "init" | "built" | "failed" | "serving"
    types,                   \* the build's input object type registry: name -> scope
    codecsByFilterTypeName,  \* the init hook's registry: operatorsTypeName -> group
    buildError,              \* the error the init hook threw, or NoError
    fieldsOf,                \* input type name -> the fields the fields hook returned
    where,                   \* the current request's $where (PgConditionStep)
    lastCall                 \* the last hook or plan call: its inputs and its outcome

vars == <<options, allPgCodecs, phase, types, codecsByFilterTypeName,
          buildError, fieldsOf, where, lastCall>>

\* ---------------------------------------------------------------- bounds
MaxCodecs == 4
MaxApplies == 2

\* ---------------------------------------------------------------- values
Null == "<null>"
NullDigest == [filterable |-> FALSE]
EmptyMap == <<>>
IsDigest(d) == d.filterable
\* F applied to the value of x, which is computed once.
Bind(x, F(_)) == CHOOSE r \in {F(v) : v \in {x}} : TRUE

\* ---------------------------------------------------------------- catalog
\* A PgTypeCodec, by the properties the plugins read.
BaseCodec(name, out, in) ==
    [name |-> name, hasColumns |-> FALSE, columns |-> <<>>,
     isAnonymous |-> FALSE, polymorphism |-> FALSE,
     arrayOfCodec |-> Null, rangeOfCodec |-> Null, domainOfCodec |-> Null,
     isEnum |-> FALSE, extensions |-> <<>>,
     outputTypeName |-> out, inputTypeName |-> in]

Column(name, codec, ext) == [columnName |-> name, codec |-> codec, extensions |-> ext]

CodecDefs ==
       "int4"        :> BaseCodec("int4", "Int", "Int")
    @@ "text"        :> BaseCodec("text", "String", "String")
    @@ "json"        :> BaseCodec("json", "JSON", "JSON")
    @@ "inet"        :> BaseCodec("inet", "String", "String")
    @@ "oid"         :> BaseCodec("oid", "Int", "BigInt")
    @@ "posint"      :> [BaseCodec("posint", "Int", "Int") EXCEPT !.domainOfCodec = "int4"]
    @@ "_int4"       :> [BaseCodec("_int4", "Int", "Int") EXCEPT !.arrayOfCodec = "int4"]
    @@ "int4range"   :> [BaseCodec("int4range", "IntRange", "IntRangeInput")
                            EXCEPT !.rangeOfCodec = "int4"]
    @@ "_int4range"  :> [BaseCodec("_int4range", "IntRange", "IntRangeInput")
                            EXCEPT !.arrayOfCodec = "int4range"]
    @@ "int4multi"   :> [BaseCodec("int4multi", "IntSpan", "IntSpanInput")
                            EXCEPT !.rangeOfCodec = "_int4"]
    @@ "intspanlist" :> BaseCodec("intspanlist", "IntSpanList", "IntSpanList")
    @@ "person"      :> [BaseCodec("person", "Person", "PersonInput")
                            EXCEPT !.hasColumns = TRUE,
                                   !.columns = << Column("id", "int4", <<>>),
                                                  Column("name", "text", <<"+select">>),
                                                  Column("secret", "text", <<"-filter">>),
                                                  Column("doc", "json", <<>>) >>]
    @@ "audit"       :> [BaseCodec("audit", "Audit", "AuditInput")
                            EXCEPT !.hasColumns = TRUE,
                                   !.extensions = <<"-filter">>,
                                   !.columns = << Column("id", "int4", <<"+filter">>),
                                                  Column("at", "inet", <<>>) >>]

\* The codecs catalogs are drawn from: the registry pass, and a serving schema.
BuildCodecs ==
    {"int4", "oid", "posint", "_int4", "int4range", "_int4range",
     "int4multi", "intspanlist", "text"}
ServingCodecs == <<"int4", "oid", "text", "json", "inet", "person", "audit">>

\* The codecs a codec refers to; the host's allPgCodecs holds them too.
Referenced(c) ==
    ({CodecDefs[c].arrayOfCodec, CodecDefs[c].rangeOfCodec, CodecDefs[c].domainOfCodec}
        \ {Null})
    \cup {CodecDefs[c].columns[i].codec : i \in DOMAIN CodecDefs[c].columns}

Range(s) == {s[i] : i \in DOMAIN s}

IsCatalog(s) ==
    /\ \A i, j \in DOMAIN s : i # j => s[i] # s[j]
    /\ \A c \in Range(s) : Referenced(c) \subseteq Range(s)

SeqsUpTo(S, n) == UNION {[1..k -> S] : k \in 0..n}

BuildCatalogs == {s \in SeqsUpTo(BuildCodecs, MaxCodecs) : IsCatalog(s)}

\* The sub-sequences of ServingCodecs, in its order.
ServingCatalogs ==
    {s \in {SelectSeq(ServingCodecs, LAMBDA c : c \in S) : S \in SUBSET Range(ServingCodecs)} :
        IsCatalog(s)}

\* TYPES.* of @dataplan/pg, by identity.
TYPES_void == "void"
TYPES_json == "json"
actualStringCodecs == {"bpchar", "char", "name", "text", "varchar", "citext"}

\* build.getGraphQLTypeNameByPgCodec(codec, situation)
getGraphQLTypeNameByPgCodec(codec, situation) ==
    IF situation = "output" THEN CodecDefs[codec].outputTypeName
    ELSE CodecDefs[codec].inputTypeName

\* build.getTypeMetaByName(name): the host registers a type per exposed name.
getTypeMetaByName(name) ==
    \E c \in DOMAIN CodecDefs :
        name \in {CodecDefs[c].outputTypeName, CodecDefs[c].inputTypeName}

\* isEnumCodec of @dataplan/pg
isEnumCodec(codec) == CodecDefs[codec].isEnum

\* ---------------------------------------------------------------- inflection
filterType(typeName) == typeName \o "Filter"
filterFieldType(typeName) == typeName \o "Filter"
filterFieldListType(typeName) == typeName \o "ListFilter"
InflectionColumn(codec, columnName) == columnName

\* ---------------------------------------------------------------- behaviors
\* build.pgGetBehavior: the behavior strings of the extensions, joined in order.
RECURSIVE pgGetBehavior(_)
pgGetBehavior(extensions) ==
    IF extensions = <<>> THEN <<>>
    ELSE Head(extensions) \o pgGetBehavior(Tail(extensions))

\* build.behavior.matches(behavior, filter, defaultBehavior): the last spec of
\* defaultBehavior followed by behavior that names the filter decides.
RECURSIVE matches(_, _, _)
matches(behavior, filter, defaultBehavior) ==
    IF behavior = <<>> THEN defaultBehavior = filter
    ELSE LET last == behavior[Len(behavior)]
             rest == SubSeq(behavior, 1, Len(behavior) - 1)
         IN  IF last = "+" \o filter THEN TRUE
             ELSE IF last = "-" \o filter THEN FALSE
             ELSE matches(rest, filter, defaultBehavior)

\* ---------------------------------------------------------------- classifier
RECURSIVE isSuitableForFiltering(_)
isSuitableForFiltering(codec) ==
    /\ codec # TYPES_void
    /\ ~CodecDefs[codec].hasColumns
    /\ ~CodecDefs[codec].isAnonymous
    /\ CodecDefs[codec].arrayOfCodec = Null
    /\ ~CodecDefs[codec].polymorphism
    /\ IF CodecDefs[codec].domainOfCodec = Null THEN TRUE
       ELSE isSuitableForFiltering(CodecDefs[codec].domainOfCodec)

\* getInnerCodec of @dataplan/pg: strips domain, array and range wrappers.
RECURSIVE getInnerCodec(_)
getInnerCodec(codec) ==
    IF CodecDefs[codec].domainOfCodec # Null
        THEN getInnerCodec(CodecDefs[codec].domainOfCodec)
    ELSE IF CodecDefs[codec].arrayOfCodec # Null
        THEN getInnerCodec(CodecDefs[codec].arrayOfCodec)
    ELSE IF CodecDefs[codec].rangeOfCodec # Null
        THEN getInnerCodec(CodecDefs[codec].rangeOfCodec)
    ELSE codec

pgConnectionFilterOperatorsCategory(codec) ==
    IF CodecDefs[codec].arrayOfCodec # Null THEN "Array"
    ELSE IF CodecDefs[codec].rangeOfCodec # Null THEN "Range"
    ELSE IF isEnumCodec(codec) THEN "Enum"
    ELSE IF CodecDefs[codec].domainOfCodec # Null THEN "Domain"
    ELSE "Scalar"

listType(codec) ==
    \/ CodecDefs[codec].arrayOfCodec # Null
    \/ /\ CodecDefs[codec].rangeOfCodec # Null
       /\ CodecDefs[CodecDefs[codec].rangeOfCodec].arrayOfCodec # Null

connectionFilterOperatorsDigest(opts, codec) ==
    IF ~isSuitableForFiltering(codec) THEN NullDigest
    ELSE
    LET pgSimpleCodec == getInnerCodec(codec)
        itemCodec == IF CodecDefs[codec].arrayOfCodec # Null
                     THEN CodecDefs[codec].arrayOfCodec ELSE codec
        fieldTypeName == getGraphQLTypeNameByPgCodec(itemCodec, "output")
        fieldInputTypeName == getGraphQLTypeNameByPgCodec(itemCodec, "input")
    IN
    IF pgSimpleCodec = Null THEN NullDigest
    ELSE IF \/ CodecDefs[pgSimpleCodec].polymorphism
            \/ CodecDefs[pgSimpleCodec].hasColumns
            \/ CodecDefs[pgSimpleCodec].isAnonymous THEN NullDigest
    ELSE IF pgSimpleCodec = TYPES_json THEN NullDigest
    ELSE IF fieldTypeName = Null THEN NullDigest
    ELSE IF ~getTypeMetaByName(fieldTypeName) THEN NullDigest
    ELSE IF fieldInputTypeName = Null THEN NullDigest
    ELSE IF ~getTypeMetaByName(fieldInputTypeName) THEN NullDigest
    ELSE IF /\ fieldInputTypeName = "String"
            /\ pgSimpleCodec \notin actualStringCodecs THEN NullDigest
    ELSE IF /\ opts.connectionFilterAllowedFieldTypes.given
            /\ fieldTypeName \notin opts.connectionFilterAllowedFieldTypes.names
        THEN NullDigest
    ELSE IF /\ pgConnectionFilterOperatorsCategory(codec) = "Array"
            /\ ~opts.connectionFilterArrays THEN NullDigest
    ELSE
    [filterable |-> TRUE,
     isList |-> listType(codec),
     operatorsTypeName |-> IF listType(codec) THEN filterFieldListType(fieldTypeName)
                           ELSE filterFieldType(fieldTypeName),
     relatedTypeName |-> fieldTypeName,
     inputTypeName |-> fieldInputTypeName,
     rangeElementInputTypeName |->
         IF CodecDefs[codec].rangeOfCodec # Null
         THEN getGraphQLTypeNameByPgCodec(CodecDefs[codec].rangeOfCodec, "input")
         ELSE Null,
     domainBaseTypeName |->
         IF CodecDefs[codec].domainOfCodec # Null
         THEN getGraphQLTypeNameByPgCodec(CodecDefs[codec].domainOfCodec, "output")
         ELSE Null]

\* ---------------------------------------------------------------- init hook
NoError == [message |-> Null, key |-> Null, codec |-> Null, existing |-> <<>>]
IsError(e) == e.message # Null

\* build.registerInputObjectType(name, scope, ...)
registerInputObjectType(registry, name, scope) ==
    IF name \in DOMAIN registry THEN registry ELSE registry @@ (name :> scope)

\* The first loop of the init hook: a filter type per column-having codec.
RECURSIVE registerFilterTypes(_, _, _)
registerFilterTypes(registry, codecs, i) ==
    IF i > Len(codecs) THEN registry
    ELSE LET pgCodec == codecs[i]
             nodeTypeName == getGraphQLTypeNameByPgCodec(pgCodec, "output")
         IN  IF ~CodecDefs[pgCodec].hasColumns \/ CodecDefs[pgCodec].isAnonymous
                 THEN registerFilterTypes(registry, codecs, i + 1)
             ELSE IF nodeTypeName = Null
                 THEN registerFilterTypes(registry, codecs, i + 1)
             ELSE Bind(registerInputObjectType(registry, filterType(nodeTypeName),
                           [pgCodec |-> pgCodec, isPgConnectionFilter |-> TRUE,
                            description |-> nodeTypeName]),
                       LAMBDA registered : registerFilterTypes(registered, codecs, i + 1))

\* A slip: the base type of a domain is compared too.
CheckedKeys_WithDomainBase ==
    <<"isList", "relatedTypeName", "inputTypeName", "rangeElementInputTypeName",
      "domainBaseTypeName">>

\* The keys the registry compares between a digest and its group, in order.
CheckedKeys == <<"isList", "relatedTypeName", "inputTypeName", "rangeElementInputTypeName">>

\* The first checked key on which the digest differs from the group, or 0.
firstMismatch(digest, group) ==
    LET bad == {k \in DOMAIN CheckedKeys : digest[CheckedKeys[k]] # group[CheckedKeys[k]]}
    IN  IF bad = {} THEN 0 ELSE CHOOSE k \in bad : \A j \in bad : k <= j

\* A slip: a later member overwrites the domain base type of its group.
registryStepWith_LastMemberWins(digest, pass, codec) ==
    LET groups == pass.groups
        name == digest.operatorsTypeName
    IN  IF ~IsDigest(digest) THEN pass
        ELSE IF name \notin DOMAIN groups THEN
            [pass EXCEPT !.groups = groups @@ (name :>
                [isList |-> digest.isList,
                 relatedTypeName |-> digest.relatedTypeName,
                 pgCodecs |-> <<codec>>,
                 inputTypeName |-> digest.inputTypeName,
                 rangeElementInputTypeName |-> digest.rangeElementInputTypeName,
                 domainBaseTypeName |-> digest.domainBaseTypeName])]
        ELSE IF firstMismatch(digest, groups[name]) # 0 THEN
            [pass EXCEPT !.error =
                [message |-> "mismatch",
                 key |-> CheckedKeys[firstMismatch(digest, groups[name])],
                 codec |-> codec,
                 existing |-> groups[name].pgCodecs]]
        ELSE [pass EXCEPT !.groups[name].pgCodecs = Append(@, codec),
                          !.groups[name].domainBaseTypeName = digest.domainBaseTypeName]

\* One iteration of the second loop: the codec's digest joins its group.
registryStepWith(digest, pass, codec) ==
    LET groups == pass.groups
        name == digest.operatorsTypeName
    IN  IF ~IsDigest(digest) THEN pass
        ELSE IF name \notin DOMAIN groups THEN
            [pass EXCEPT !.groups = groups @@ (name :>
                [isList |-> digest.isList,
                 relatedTypeName |-> digest.relatedTypeName,
                 pgCodecs |-> <<codec>>,
                 inputTypeName |-> digest.inputTypeName,
                 rangeElementInputTypeName |-> digest.rangeElementInputTypeName,
                 domainBaseTypeName |-> digest.domainBaseTypeName])]
        ELSE IF firstMismatch(digest, groups[name]) # 0 THEN
            [pass EXCEPT !.error =
                [message |-> "mismatch",
                 key |-> CheckedKeys[firstMismatch(digest, groups[name])],
                 codec |-> codec,
                 existing |-> groups[name].pgCodecs]]
        ELSE [pass EXCEPT !.groups[name].pgCodecs = Append(@, codec)]

registryStep(opts, pass, codec) ==
    Bind(connectionFilterOperatorsDigest(opts, codec),
         LAMBDA digest : registryStepWith(digest, pass, codec))

\* The second loop of the init hook, which a mismatch ends by throwing.
RECURSIVE registryPass(_, _, _, _)
registryPass(opts, codecs, i, pass) ==
    IF i > Len(codecs) THEN pass
    ELSE IF IsError(pass.error) THEN pass
    ELSE Bind(registryStep(opts, pass, codecs[i]),
              LAMBDA stepped : registryPass(opts, codecs, i + 1, stepped))

NoGroups == [groups |-> EmptyMap, error |-> NoError]
codecsByFilterTypeNameOf(opts, codecs) ==
    Bind(NoGroups, LAMBDA none : registryPass(opts, codecs, 1, none))

\* The scope and description the third loop registers for a group.
operatorsTypeScope(g) ==
    [pgConnectionFilterOperators |->
        [pgCodecs |-> g.pgCodecs,
         inputTypeName |-> g.inputTypeName,
         rangeElementInputTypeName |-> g.rangeElementInputTypeName,
         domainBaseTypeName |-> g.domainBaseTypeName],
     isPgConnectionFilter |-> FALSE,
     description |-> [relatedTypeName |-> g.relatedTypeName, isList |-> g.isList]]

\* The third loop of the init hook: an operator type per group.
registerOperatorTypes(registry, groups) ==
    [name \in DOMAIN registry \cup DOMAIN groups |->
        IF name \in DOMAIN groups
        THEN registerInputObjectType(registry, name, operatorsTypeScope(groups[name]))[name]
        ELSE registry[name]]

\* The init hook as a whole: what it registered, its registry, what it threw.
\* A slip: the groups found before the mismatch are registered all the same.
initCallbackWith_RegisterThenThrow(filterTypes, registry) ==
    [types |-> registerOperatorTypes(filterTypes, registry.groups),
     groups |-> registry.groups, error |-> registry.error]

initCallbackWith(filterTypes, registry) ==
    IF IsError(registry.error)
    THEN [types |-> filterTypes, groups |-> registry.groups, error |-> registry.error]
    ELSE [types |-> registerOperatorTypes(filterTypes, registry.groups),
          groups |-> registry.groups, error |-> NoError]

initCallback(opts, codecs) ==
    Bind(registerFilterTypes(EmptyMap, codecs, 1), LAMBDA filterTypes :
        Bind(codecsByFilterTypeNameOf(opts, codecs), LAMBDA registry :
            initCallbackWith(filterTypes, registry)))

\* ---------------------------------------------------------------- fields hook
\* A slip: a column is filterable only when it says so.
RECURSIVE addColumnFields_OptIn(_, _, _, _, _)
addColumnFields_OptIn(opts, registry, codec, fields, i) ==
    IF i > Len(CodecDefs[codec].columns) THEN fields
    ELSE
    LET column == CodecDefs[codec].columns[i]
        columnName == column.columnName
        behavior == pgGetBehavior(<<CodecDefs[column.codec].extensions, column.extensions>>)
        fieldName == InflectionColumn(codec, columnName)
        digest == connectionFilterOperatorsDigest(opts, column.codec)
    IN
    IF ~matches(behavior, "filter", "-filter")
        THEN addColumnFields_OptIn(opts, registry, codec, fields, i + 1)
    ELSE IF ~IsDigest(digest)
        THEN addColumnFields_OptIn(opts, registry, codec, fields, i + 1)
    ELSE IF digest.operatorsTypeName \notin DOMAIN registry
        THEN addColumnFields_OptIn(opts, registry, codec, fields, i + 1)
    ELSE addColumnFields_OptIn(opts, registry, codec,
            fields @@ (fieldName :>
                [fieldName |-> fieldName,
                 isPgConnectionFilterField |-> TRUE,
                 type |-> digest.operatorsTypeName,
                 colSpec |-> [columnName |-> columnName, column |-> column],
                 connectionFilterAllowEmptyObjectInput |->
                     opts.connectionFilterAllowEmptyObjectInput,
                 connectionFilterAllowNullInput |-> opts.connectionFilterAllowNullInput]),
            i + 1)

\* The column loop of GraphQLInputObjectType_fields, from column i on.
RECURSIVE addColumnFields(_, _, _, _, _)
addColumnFields(opts, registry, codec, fields, i) ==
    IF i > Len(CodecDefs[codec].columns) THEN fields
    ELSE
    LET column == CodecDefs[codec].columns[i]
        columnName == column.columnName
        behavior == pgGetBehavior(<<CodecDefs[column.codec].extensions, column.extensions>>)
        fieldName == InflectionColumn(codec, columnName)
        digest == connectionFilterOperatorsDigest(opts, column.codec)
    IN
    IF ~matches(behavior, "filter", "filter")
        THEN addColumnFields(opts, registry, codec, fields, i + 1)
    ELSE IF ~IsDigest(digest)
        THEN addColumnFields(opts, registry, codec, fields, i + 1)
    ELSE IF digest.operatorsTypeName \notin DOMAIN registry
        THEN addColumnFields(opts, registry, codec, fields, i + 1)
    ELSE addColumnFields(opts, registry, codec,
            fields @@ (fieldName :>
                [fieldName |-> fieldName,
                 isPgConnectionFilterField |-> TRUE,
                 type |-> digest.operatorsTypeName,
                 colSpec |-> [columnName |-> columnName, column |-> column],
                 connectionFilterAllowEmptyObjectInput |->
                     opts.connectionFilterAllowEmptyObjectInput,
                 connectionFilterAllowNullInput |-> opts.connectionFilterAllowNullInput]),
            i + 1)

GraphQLInputObjectType_fields(opts, registry, inFields, scope) ==
    IF ~scope.isPgConnectionFilter THEN inFields
    ELSE IF ~CodecDefs[scope.pgCodec].hasColumns THEN inFields
    ELSE addColumnFields(opts, registry, scope.pgCodec, inFields, 1)

\* ---------------------------------------------------------------- args hook
NoSource == [present |-> FALSE, codec |-> Null, parameters |-> FALSE, extensions |-> <<>>]

\* A slip: procedure sources are filterable by default too.
GraphQLObjectType_fields_field_args_AlwaysDefault(opts, registry, args, scope) ==
    LET shouldAddFilter == scope.isPgFieldConnection \/ scope.isPgFieldSimpleCollection
        source == scope.pgSource
        behavior == pgGetBehavior(<<CodecDefs[source.codec].extensions, source.extensions>>)
        defaultBehavior ==
            "filter"
        nodeTypeName == getGraphQLTypeNameByPgCodec(source.codec, "output")
        filterTypeName == filterType(nodeTypeName)
    IN
    IF ~shouldAddFilter THEN args
    ELSE IF ~source.present THEN args
    ELSE IF ~matches(behavior, "filter", defaultBehavior) THEN args
    ELSE IF nodeTypeName = Null \/ ~getTypeMetaByName(nodeTypeName) THEN args
    ELSE IF filterTypeName \notin DOMAIN registry THEN args
    ELSE args @@ ("filter" :>
            [type |-> filterTypeName,
             plan |-> IF scope.isPgFieldConnection
                      THEN "$connection.getSubplan().wherePlan()"
                      ELSE "$pgSelect.wherePlan()"])

GraphQLObjectType_fields_field_args(opts, registry, args, scope) ==
    LET shouldAddFilter == scope.isPgFieldConnection \/ scope.isPgFieldSimpleCollection
        source == scope.pgSource
        behavior == pgGetBehavior(<<CodecDefs[source.codec].extensions, source.extensions>>)
        defaultBehavior ==
            IF source.parameters /\ ~opts.connectionFilterSetofFunctions
            THEN "-filter" ELSE "filter"
        nodeTypeName == getGraphQLTypeNameByPgCodec(source.codec, "output")
        filterTypeName == filterType(nodeTypeName)
    IN
    IF ~shouldAddFilter THEN args
    ELSE IF ~source.present THEN args
    ELSE IF ~matches(behavior, "filter", defaultBehavior) THEN args
    ELSE IF nodeTypeName = Null \/ ~getTypeMetaByName(nodeTypeName) THEN args
    ELSE IF filterTypeName \notin DOMAIN registry THEN args
    ELSE args @@ ("filter" :>
            [type |-> filterTypeName,
             plan |-> IF scope.isPgFieldConnection
                      THEN "$connection.getSubplan().wherePlan()"
                      ELSE "$pgSelect.wherePlan()"])

\* ---------------------------------------------------------------- requests
NoColSpec == [columnName |-> Null, column |-> Column(Null, Null, <<>>)]
NoWhere == [root |-> Null, extensions |-> [pgFilterColumn |-> NoColSpec], conditions |-> <<>>]
\* An error of applyPlan: its message and the properties Object.assign gave it.
NoPlanError == [message |-> Null, assigned |-> {}]
EmptyFilterObject == "Empty objects are forbidden in filter argument input."
NullFilterLiteral == "Null literals are forbidden in filter argument input."
NoCall == [op |-> "none"]

\* fieldArgs.getRaw(): the input step, by what applyPlan asks of it.
RawValues == [evalIsEmptyIn : BOOLEAN, value : {"object", "empty", "null"}]
evalIsEmpty(raw) == raw.value = "empty"
evalIsNull(raw) == raw.value = "null"

\* fieldArgs.apply($where): the operator fields of the value build their
\* conditions against the column they read from $where.extensions.
fieldArgsApply(w, field, raw) ==
    [w EXCEPT !.conditions = Append(@,
        [field |-> field.fieldName,
         pgFilterColumn |-> w.extensions.pgFilterColumn,
         value |-> raw.value])]

\* A slip: the column is tagged before the input is validated.
applyPlan_TagThenValidate(w, field, raw) ==
    IF /\ ~field.connectionFilterAllowEmptyObjectInput
       /\ raw.evalIsEmptyIn
       /\ evalIsEmpty(raw)
    THEN [where |-> [w EXCEPT !.extensions.pgFilterColumn = field.colSpec],
          error |-> [message |-> EmptyFilterObject, assigned |-> {}]]
    ELSE IF ~field.connectionFilterAllowNullInput /\ evalIsNull(raw)
    THEN [where |-> [w EXCEPT !.extensions.pgFilterColumn = field.colSpec],
          error |-> [message |-> NullFilterLiteral, assigned |-> {}]]
    ELSE [where |-> fieldArgsApply(
                        [w EXCEPT !.extensions.pgFilterColumn = field.colSpec], field, raw),
          error |-> NoPlanError]

\* A slip: the value is applied before the column is tagged.
applyPlan_ApplyThenTag(w, field, raw) ==
    IF /\ ~field.connectionFilterAllowEmptyObjectInput
       /\ raw.evalIsEmptyIn
       /\ evalIsEmpty(raw)
    THEN [where |-> w, error |-> [message |-> EmptyFilterObject, assigned |-> {}]]
    ELSE IF ~field.connectionFilterAllowNullInput /\ evalIsNull(raw)
    THEN [where |-> w, error |-> [message |-> NullFilterLiteral, assigned |-> {}]]
    ELSE [where |-> [fieldArgsApply(w, field, raw)
                        EXCEPT !.extensions.pgFilterColumn = field.colSpec],
          error |-> NoPlanError]

applyPlan(w, field, raw) ==
    IF /\ ~field.connectionFilterAllowEmptyObjectInput
       /\ raw.evalIsEmptyIn
       /\ evalIsEmpty(raw)
    THEN [where |-> w, error |-> [message |-> EmptyFilterObject, assigned |-> {}]]
    ELSE IF ~field.connectionFilterAllowNullInput /\ evalIsNull(raw)
    THEN [where |-> w, error |-> [message |-> NullFilterLiteral, assigned |-> {}]]
    ELSE [where |-> fieldArgsApply(
                        [w EXCEPT !.extensions.pgFilterColumn = field.colSpec], field, raw),
          error |-> NoPlanError]

\* ---------------------------------------------------------------- actions
Options ==
    [connectionFilterArrays : BOOLEAN,
     connectionFilterAllowedFieldTypes :
        {[given |-> FALSE, names |-> {}], [given |-> TRUE, names |-> {"Int", "IntRange"}]},
     connectionFilterSetofFunctions : BOOLEAN,
     connectionFilterAllowNullInput : BOOLEAN,
     connectionFilterAllowEmptyObjectInput : BOOLEAN]

InitWith(catalogs, opts) ==
    /\ options \in opts
    /\ allPgCodecs \in catalogs
    /\ phase = "init"
    /\ types = EmptyMap
    /\ codecsByFilterTypeName = EmptyMap
    /\ buildError = NoError
    /\ fieldsOf = EmptyMap
    /\ where = NoWhere
    /\ lastCall = NoCall

InitCallback ==
    /\ phase = "init"
    /\ \E built \in {initCallback(options, allPgCodecs)} :
           /\ types' = built.types
           /\ codecsByFilterTypeName' = built.groups
           /\ buildError' = built.error
           /\ phase' = IF IsError(built.error) THEN "failed" ELSE "built"
    /\ UNCHANGED <<options, allPgCodecs, fieldsOf, where, lastCall>>

\* The host runs the fields hook once for every registered input type.
FieldsHook ==
    /\ phase = "built"
    /\ \E name \in DOMAIN types \ DOMAIN fieldsOf :
       \E returned \in {GraphQLInputObjectType_fields(options, types, EmptyMap, types[name])} :
              /\ fieldsOf' = fieldsOf @@ (name :> returned)
              /\ lastCall' = [op |-> "fields", type |-> name]
    /\ UNCHANGED <<options, allPgCodecs, phase, types, codecsByFilterTypeName,
                   buildError, where>>

Sources ==
    {NoSource} \cup
    [present : {TRUE}, codec : Range(allPgCodecs), parameters : BOOLEAN,
     extensions : {<<>>, <<"+filter">>, <<"-filter">>}]
Scopes ==
    [isPgFieldConnection : BOOLEAN, isPgFieldSimpleCollection : BOOLEAN, pgSource : Sources]
ArgMaps == {EmptyMap, "first" :> [type |-> "Int", plan |-> Null]}

\* The host runs the args hook for every field of every object type.
ArgsHook ==
    /\ phase = "built"
    /\ \E scope \in Scopes, args \in ArgMaps :
          lastCall' = [op |-> "args", scope |-> scope, args |-> args,
                       result |-> GraphQLObjectType_fields_field_args(
                                      options, types, args, scope)]
    /\ UNCHANGED <<options, allPgCodecs, phase, types, codecsByFilterTypeName,
                   buildError, fieldsOf, where>>

RequestAlive == ~(lastCall.op = "applyPlan" /\ lastCall.error.message # Null)

\* A request with a filter argument of some filter type: a fresh $where.
NewRequest ==
    /\ \/ phase = "built" /\ DOMAIN fieldsOf = DOMAIN types
       \/ phase = "serving"
    /\ \E root \in {n \in DOMAIN types : types[n].isPgConnectionFilter} :
          where' = [NoWhere EXCEPT !.root = root]
    /\ phase' = "serving"
    /\ lastCall' = [op |-> "request"]
    /\ UNCHANGED <<options, allPgCodecs, types, codecsByFilterTypeName,
                   buildError, fieldsOf>>

\* The plan of one column field of the request's filter value.
ApplyPlan ==
    /\ phase = "serving"
    /\ RequestAlive
    /\ Len(where.conditions) < MaxApplies
    /\ \E fieldName \in DOMAIN fieldsOf[where.root], raw \in RawValues :
       \E planned \in {applyPlan(where, fieldsOf[where.root][fieldName], raw)} :
              /\ where' = planned.where
              /\ lastCall' = [op |-> "applyPlan", field |-> fieldsOf[where.root][fieldName],
                              raw |-> raw, error |-> planned.error]
    /\ UNCHANGED <<options, allPgCodecs, phase, types, codecsByFilterTypeName,
                   buildError, fieldsOf>>

\* The life of one schema: the build, the fields of its input types, requests.
Init == InitWith(ServingCatalogs, Options)
Next == InitCallback \/ FieldsHook \/ NewRequest \/ ApplyPlan
Spec == Init /\ [][Next]_vars

\* The registry pass of the init hook over every catalog.
BuildOptions ==
    {o \in Options : /\ ~o.connectionFilterSetofFunctions
                     /\ ~o.connectionFilterAllowNullInput
                     /\ ~o.connectionFilterAllowEmptyObjectInput}
InitBuild == InitWith(BuildCatalogs, BuildOptions)
NextBuild == InitCallback
SpecBuild == InitBuild /\ [][NextBuild]_vars

\* The args hook over the listing fields of a built schema.
ArgsOptions ==
    {o \in Options : /\ ~o.connectionFilterAllowNullInput
                     /\ ~o.connectionFilterAllowEmptyObjectInput}
InitArgs == InitWith(ServingCatalogs, ArgsOptions)
NextArgs == InitCallback \/ ArgsHook
SpecArgs == InitArgs /\ [][NextArgs]_vars

\* ================================================================ claims
IsApply == lastCall.op = "applyPlan"
ApplyFailed == IF IsApply THEN lastCall.error.message # Null ELSE FALSE
ApplySucceeded == IF IsApply THEN lastCall.error.message = Null ELSE FALSE
\* The last apply tagged $where with its column and handed the value to it.
TaggedAndDelegated ==
    /\ where.extensions.pgFilterColumn = lastCall.field.colSpec
    /\ Len(where.conditions) > 0
    /\ where.conditions[Len(where.conditions)].field = lastCall.field.fieldName
    /\ where.conditions[Len(where.conditions)].value = lastCall.raw.value

C2_NoPartialMutation == [][ApplyFailed' => where' = where]_vars

\* An apply failed after an earlier column of the same request was applied.
C2_Witness ==
    /\ ApplyFailed
    /\ Len(where.conditions) > 0
    /\ where.extensions.pgFilterColumn # lastCall.field.colSpec

\* C4: whenever a column's value is applied, the slot of $where holds that
\* column, whatever columns were applied before it in the request.
C4_SlotIsEnclosingColumn ==
    /\ \A i \in DOMAIN where.conditions :
          where.conditions[i].pgFilterColumn
              = fieldsOf[where.root][where.conditions[i].field].colSpec
    /\ ApplySucceeded => TaggedAndDelegated

\* Two different columns were applied in one request.
C4_Witness ==
    /\ Len(where.conditions) = 2
    /\ where.conditions[1].field # where.conditions[2].field
    /\ ApplySucceeded

\* C8: the errors of an apply are marked safe to show to the caller.
SafeMarker == "safe"
C8_ErrorsAreSafe == ApplyFailed => SafeMarker \in lastCall.error.assigned

\* ---------------------------------------------------------------- build claims
Built == phase # "init"
Digest(i) == connectionFilterOperatorsDigest(options, allPgCodecs[i])
Filterable(i) == IsDigest(Digest(i))
SameGroup(i, j) ==
    IF Filterable(i) /\ Filterable(j)
    THEN Digest(i).operatorsTypeName = Digest(j).operatorsTypeName ELSE FALSE
\* The first type of the enumeration in the group of type i.
Representative(i) == CHOOSE j \in 1..i : SameGroup(i, j) /\ \A k \in 1..(j - 1) : ~SameGroup(i, k)
AgreeOnChecked(d, e) ==
    /\ d.isList = e.isList
    /\ d.relatedTypeName = e.relatedTypeName
    /\ d.inputTypeName = e.inputTypeName
    /\ d.rangeElementInputTypeName = e.rangeElementInputTypeName
Differs(i) ==
    IF Filterable(i) THEN ~AgreeOnChecked(Digest(i), Digest(Representative(i))) ELSE FALSE
MemberCount(name, codec) ==
    Cardinality({k \in DOMAIN codecsByFilterTypeName[name].pgCodecs :
                    codecsByFilterTypeName[name].pgCodecs[k] = codec})

\* C3: the registry pass fails exactly when some filterable type differs from
\* the first type of its group on isList, relatedTypeName, inputTypeName or
\* rangeElementInputTypeName; when none does, every filterable type is a
\* member, once, of the group of its operatorsTypeName and of no other.
C3_MismatchIffDiffers ==
    Built =>
        /\ IsError(buildError) <=> \E i \in DOMAIN allPgCodecs : Differs(i)
        /\ IsError(buildError) =>
              \E i \in DOMAIN allPgCodecs :
                  /\ allPgCodecs[i] = buildError.codec
                  /\ Differs(i)
                  /\ buildError.existing[1] = allPgCodecs[Representative(i)]
        /\ ~IsError(buildError) =>
              \A i \in DOMAIN allPgCodecs :
                  IF Filterable(i)
                  THEN /\ Digest(i).operatorsTypeName \in DOMAIN codecsByFilterTypeName
                       /\ \A name \in DOMAIN codecsByFilterTypeName :
                             MemberCount(name, allPgCodecs[i])
                                = IF name = Digest(i).operatorsTypeName THEN 1 ELSE 0
                  ELSE \A name \in DOMAIN codecsByFilterTypeName :
                             MemberCount(name, allPgCodecs[i]) = 0

\* The pass failed on two types of one group that disagree on isList.
C3_Witness ==
    /\ phase = "failed"
    /\ buildError.key = "isList"

\* C6: with arrays enabled, an array of a range of a simple type whose names
\* pass the other checks gets a digest with isList and the list-flavoured name.
IsArrayOfRange(codec) ==
    IF CodecDefs[codec].arrayOfCodec = Null THEN FALSE
    ELSE IF CodecDefs[CodecDefs[codec].arrayOfCodec].rangeOfCodec = Null THEN FALSE
    ELSE getInnerCodec(codec) = CodecDefs[CodecDefs[codec].arrayOfCodec].rangeOfCodec
C6_ArrayOfRangeIsArray ==
    Built =>
        \A i \in DOMAIN allPgCodecs :
            (/\ options.connectionFilterArrays
             /\ ~options.connectionFilterAllowedFieldTypes.given
             /\ IsArrayOfRange(allPgCodecs[i]))
            => IF Filterable(i)
               THEN /\ Digest(i).isList
                    /\ Digest(i).operatorsTypeName
                         = filterFieldListType(getGraphQLTypeNameByPgCodec(
                               CodecDefs[allPgCodecs[i]].arrayOfCodec, "output"))
               ELSE FALSE

IsFilterType(name) == IF name \in DOMAIN types THEN types[name].isPgConnectionFilter ELSE FALSE
IsOperatorsType(name) == IF name \in DOMAIN types THEN ~types[name].isPgConnectionFilter ELSE FALSE

IndexOf(codec) == CHOOSE i \in DOMAIN allPgCodecs : allPgCodecs[i] = codec
GroupIsFirstMembers(g) ==
    /\ Len(g.pgCodecs) > 0
    /\ \A k \in DOMAIN g.pgCodecs : g.pgCodecs[k] \in Range(allPgCodecs)
    /\ \A k, l \in DOMAIN g.pgCodecs :
          k < l => IndexOf(g.pgCodecs[k]) < IndexOf(g.pgCodecs[l])
    /\ LET d == connectionFilterOperatorsDigest(options, g.pgCodecs[1])
       IN  /\ IsDigest(d)
           /\ g.isList = d.isList
           /\ g.relatedTypeName = d.relatedTypeName
           /\ g.inputTypeName = d.inputTypeName
           /\ g.rangeElementInputTypeName = d.rangeElementInputTypeName
           /\ g.domainBaseTypeName = d.domainBaseTypeName
IsPrefix(s, t) == Len(s) <= Len(t) /\ \A k \in DOMAIN s : s[k] = t[k]
GroupsAfter(k) == codecsByFilterTypeNameOf(options, SubSeq(allPgCodecs, 1, k)).groups
SameAttributes(g, h) ==
    /\ g.isList = h.isList
    /\ g.relatedTypeName = h.relatedTypeName
    /\ g.inputTypeName = h.inputTypeName
    /\ g.rangeElementInputTypeName = h.rangeElementInputTypeName
    /\ g.domainBaseTypeName = h.domainBaseTypeName

\* C10: the attributes of a group, and those its registered operator type is
\* tagged and described with, are those of its first member in enumeration
\* order; a later member extends the member list and changes none of them.
C10_GroupKeepsFirstMember ==
    Built =>
        /\ \A name \in DOMAIN codecsByFilterTypeName :
              GroupIsFirstMembers(codecsByFilterTypeName[name])
        /\ phase = "built" =>
              \A name \in DOMAIN codecsByFilterTypeName :
                  /\ IsOperatorsType(name)
                  /\ types[name].pgConnectionFilterOperators.pgCodecs
                        = codecsByFilterTypeName[name].pgCodecs
                  /\ SameAttributes(
                        codecsByFilterTypeName[name],
                        [isList |-> types[name].description.isList,
                         relatedTypeName |-> types[name].description.relatedTypeName,
                         inputTypeName |->
                            types[name].pgConnectionFilterOperators.inputTypeName,
                         rangeElementInputTypeName |->
                            types[name].pgConnectionFilterOperators.rangeElementInputTypeName,
                         domainBaseTypeName |->
                            types[name].pgConnectionFilterOperators.domainBaseTypeName])
        /\ \A k \in 1..Len(allPgCodecs) :
              \E before \in {GroupsAfter(k - 1)}, after \in {GroupsAfter(k)} :
                  \A name \in DOMAIN before :
                      /\ name \in DOMAIN after
                      /\ SameAttributes(before[name], after[name])
                      /\ IsPrefix(before[name].pgCodecs, after[name].pgCodecs)

\* A registered group whose first member is a domain and whose second is not.
C10_Witness ==
    /\ phase = "built"
    /\ \E name \in DOMAIN codecsByFilterTypeName :
          /\ Len(codecsByFilterTypeName[name].pgCodecs) > 1
          /\ types[name].pgConnectionFilterOperators.domainBaseTypeName # Null
          /\ CodecDefs[codecsByFilterTypeName[name].pgCodecs[2]].domainOfCodec = Null

\* ---------------------------------------------------------------- hook claims
\* The last "+filter" or "-filter" among the tags, Null when there is none.
RECURSIVE LastFilterTag(_)
LastFilterTag(tags) ==
    IF Len(tags) = 0 THEN Null
    ELSE IF tags[Len(tags)] \in {"+filter", "-filter"} THEN tags[Len(tags)]
    ELSE LastFilterTag(SubSeq(tags, 1, Len(tags) - 1))
ColumnTag(column) == LastFilterTag(CodecDefs[column.codec].extensions \o column.extensions)
ColumnsOf(codec) == {CodecDefs[codec].columns[i] : i \in DOMAIN CodecDefs[codec].columns}
ShouldHaveField(column) ==
    /\ ColumnTag(column) # "-filter"
    /\ IF IsDigest(connectionFilterOperatorsDigest(options, column.codec))
       THEN connectionFilterOperatorsDigest(options, column.codec).operatorsTypeName
                \in DOMAIN types
       ELSE FALSE

\* C9: the filter type of a composite type has a field for a column exactly
\* when the column is filter-capable (by default it is), its type has a digest
\* and the operator type the digest names is registered; the field is typed by
\* that operator type. Person, with filter-capable id and name, gets exactly
\* id typed by the integer group and name typed by the text group.
C9_FieldsIffFilterable ==
    \A name \in {n \in DOMAIN fieldsOf : IsFilterType(n)} :
        /\ \A column \in ColumnsOf(types[name].pgCodec) :
              /\ column.columnName \in DOMAIN fieldsOf[name] <=> ShouldHaveField(column)
              /\ column.columnName \in DOMAIN fieldsOf[name] =>
                    /\ fieldsOf[name][column.columnName].type
                          = connectionFilterOperatorsDigest(options, column.codec)
                               .operatorsTypeName
                    /\ fieldsOf[name][column.columnName].colSpec.column = column
        /\ \A f \in DOMAIN fieldsOf[name] :
              \E column \in ColumnsOf(types[name].pgCodec) : column.columnName = f
        /\ (name = "PersonFilter" /\ ~options.connectionFilterAllowedFieldTypes.given) =>
              /\ DOMAIN fieldsOf[name] = {"id", "name"}
              /\ fieldsOf[name]["id"].type = "IntFilter"
              /\ fieldsOf[name]["name"].type = "StringFilter"

\* The fields of Person's filter type have been computed.
C9_Witness ==
    /\ "PersonFilter" \in DOMAIN fieldsOf
    /\ ~options.connectionFilterAllowedFieldTypes.given
    /\ DOMAIN fieldsOf["PersonFilter"] = {"id", "name"}

IsArgs == lastCall.op = "args"
IsListing == lastCall.scope.isPgFieldConnection \/ lastCall.scope.isPgFieldSimpleCollection
SourceTag ==
    LastFilterTag(CodecDefs[lastCall.scope.pgSource.codec].extensions
                    \o lastCall.scope.pgSource.extensions)
RowFilterType == filterType(CodecDefs[lastCall.scope.pgSource.codec].outputTypeName)
HasRowFilterType ==
    IF CodecDefs[lastCall.scope.pgSource.codec].hasColumns
    THEN IsFilterType(RowFilterType) ELSE FALSE
FilterAdded == "filter" \in DOMAIN lastCall.result

\* C5: a listing field on a plain row-set source whose row type has a filter
\* type gets a filter argument unless opted out with "-filter"; one on a
\* procedure source gets none unless set-returning functions are enabled or it
\* is opted in with "+filter"; when none is added the arguments are unchanged.
C5_DefaultFilterability ==
    IsArgs =>
        /\ (/\ IsListing
            /\ lastCall.scope.pgSource.present
            /\ ~lastCall.scope.pgSource.parameters
            /\ HasRowFilterType)
           => /\ FilterAdded <=> SourceTag # "-filter"
              /\ FilterAdded => lastCall.result["filter"].type = RowFilterType
        /\ (/\ IsListing
            /\ lastCall.scope.pgSource.present
            /\ lastCall.scope.pgSource.parameters
            /\ HasRowFilterType)
           => (FilterAdded <=>
                 \/ SourceTag = "+filter"
                 \/ options.connectionFilterSetofFunctions /\ SourceTag # "-filter")
        /\ (~IsListing \/ ~lastCall.scope.pgSource.present) => ~FilterAdded
        /\ FilterAdded => \A a \in DOMAIN lastCall.args : lastCall.result[a] = lastCall.args[a]
        /\ ~FilterAdded => lastCall.result = lastCall.args

\* A procedure source opted in with "+filter" got the argument although
\* set-returning functions are not enabled.
C5_Witness ==
    /\ IsArgs
    /\ IsListing
    /\ lastCall.scope.pgSource.present
    /\ lastCall.scope.pgSource.parameters
    /\ ~options.connectionFilterSetofFunctions
    /\ SourceTag = "+filter"
    /\ FilterAdded

====
